---- MODULE Spec2Model ----
(***************************************************************************)
(* Model of vector_benchmark.cpp: the record type MyStruct, the seven      *)
(* benchmark functions that populate a collection of N records, and the    *)
(* registration of the seven functions with the benchmark driver.          *)
(*                                                                         *)
(* Three specifications share the module:                                  *)
(*   Spec        the benchmark functions, statement by statement, on a     *)
(*               heap of blocks, for small item counts;                    *)
(*   SpecDriver  the BENCHMARK registrations and the driver's run of the   *)
(*               registered repetitions;                                   *)
(*   SpecNarrow  the size_t -> int conversion of the loop index, on probe  *)
(*               indices around 2^31, 2^32 and 2^48.                       *)
(***************************************************************************)
EXTENDS Integers, Sequences, FiniteSets, TLC

\* ------------------------------------------------------------------ bounds
\* Item counts explored by Spec: state.range(0) in 0..MaxN.
MaxN == 5
\* Iterations the timed loop `for (auto _ : state)` may run in one call.
MaxIters == 2
\* Calls of benchmark functions in one behaviour of Spec (repetitions).
MaxCalls == 2
\* Iteration counts the driver may pick for one repetition in SpecDriver.
MaxDriverIters == 2
\* Stores past the end of a block that may land in mapped memory before the
\* run faults.
MaxStray == 1

\* --------------------------------------------------------------- constants
\* sizeof(MyStruct): two int fields.
SizeofMyStruct == 8
\* ->Arg(500000)
ItemCount == 500000
\* ->Repetitions(20)
RepetitionCount == 20
\* One 16-bit limb of a 64-bit size_t ranges over 0..LimbBase-1.
LimbBase == 2^16
\* Limbs with the top bit set are >= LimbHalf.
LimbHalf == 2^15

VARIABLES
    \* --- the running benchmark function (Spec)
    pc,          \* "idle" | "head" | "body" | "report" | "done" | "crashed"
    fn,          \* name of the running benchmark function, "" when idle
    N,           \* size_t N = state.range(0), as four 16-bit limbs
    maxIter,     \* iterations the range-for over `state` will run
    iter,        \* state.iterations() so far
    ip,          \* index of the current statement in Body(fn)
    i,           \* the loop index (size_t i)
    vec,         \* the local `vec`: a raw pointer or a std::vector
    tmp,         \* the temporary / local MyStruct, <<>> when there is none
    heap,        \* live blocks: id -> [bytes, cells]
    items,       \* value passed to state.SetItemsProcessed, as limbs
    reportCalls, \* calls of SetItemsProcessed in this call
    calls,       \* benchmark function calls completed
    \* --- observation of the current iteration (history)
    events,      \* "alloc" | "write" | "release" | "observe", in order
    temps,       \* temporaries materialised
    built,       \* records built into the collection
    obs,         \* one entry per DoNotOptimize: records built at that time
    allocBytes,  \* bytes requested from the allocator
    uaf,         \* a slot of a released block was read or written
    oob,         \* a slot outside the block was written
    strays,      \* stores outside a block so far
    doubleFree,  \* a block was released that was not live
    heapAtEntry, \* ids of the blocks live when the call began
    \* --- the driver (SpecDriver)
    dpc,         \* "static_init" | "main" | "exit"
    registry,    \* sequence of registered benchmarks
    cur,         \* index in registry of the benchmark being run
    rep,         \* repetitions of registry[cur] completed
    running,     \* calls executing now: <<name, repetition, thread>>
    reported,    \* items processed reported by the last finished repetition
    \* --- the conversion probe (SpecNarrow)
    probeI,      \* a size_t index as four 16-bit limbs, most significant first
    probeFn,     \* the variant that built probeRec, "" before
    probeRec     \* <<>> or <<record built for index probeI>>

fvars == <<pc, fn, N, maxIter, iter, ip, i, vec, tmp, heap, items, reportCalls,
           calls, events, temps, built, obs, allocBytes, uaf, oob, strays,
           doubleFree, heapAtEntry>>
dvars == <<dpc, registry, cur, rep, running, reported>>
pvars == <<probeI, probeFn, probeRec>>
vars == <<fvars, dvars, pvars>>

\* ---------------------------------------------------------- record type
\* struct MyStruct { int x, y; MyStruct(int a, int b) : x(a), y(b) {} };
MyStructSwapped(a, b) == [x |-> a, y |-> b + 1]
MyStruct(a, b) == [x |-> a, y |-> b]

\* A size_t below 2^31 as four 16-bit limbs, most significant first.
U64(n) == <<0, 0, n \div LimbBase, n % LimbBase>>

\* The size_t u is below 2^31, and then Val(u) is its value.
Small(u) == u[1] = 0 /\ u[2] = 0 /\ u[3] < LimbHalf
Val(u) == u[3] * LimbBase + u[4]

\* u < w on size_t.
Less(u, w) ==
    \E k \in 1..4 : u[k] < w[k] /\ \A j \in 1..(k - 1) : u[j] = w[j]

\* u * k on size_t, i.e. modulo 2^64, for 0 <= k < 2^15.
MulSmall(u, k) ==
    LET p4 == u[4] * k
        p3 == u[3] * k + (p4 \div LimbBase)
        p2 == u[2] * k + (p3 \div LimbBase)
        p1 == u[1] * k + (p2 \div LimbBase)
    IN <<p1 % LimbBase, p2 % LimbBase, p3 % LimbBase, p4 % LimbBase>>

\* u + w on size_t, i.e. modulo 2^64.
Add(u, w) ==
    LET s4 == u[4] + w[4]
        s3 == u[3] + w[3] + (s4 \div LimbBase)
        s2 == u[2] + w[2] + (s3 \div LimbBase)
        s1 == u[1] + w[1] + (s2 \div LimbBase)
    IN <<s1 % LimbBase, s2 % LimbBase, s3 % LimbBase, s4 % LimbBase>>

\* u / k on size_t (rounding down), for 0 < k < 2^15.
DivSmall(u, k) ==
    LET r1 == u[1] % k
        d2 == r1 * LimbBase + u[2]
        d3 == (d2 % k) * LimbBase + u[3]
        d4 == (d3 % k) * LimbBase + u[4]
    IN <<u[1] \div k, d2 \div k, d3 \div k, d4 \div k>>

\* size_t -> int conversion of the constructor arguments (C++20: the value
\* modulo 2^32, read as two's complement).
SizeToIntSaturating(u) ==
    IF u[1] # 0 \/ u[2] # 0 \/ u[3] >= LimbHalf
    THEN (LimbHalf - 1) * LimbBase + (LimbBase - 1)
    ELSE u[3] * LimbBase + u[4]
SizeToInt(u) ==
    IF u[3] >= LimbHalf
    THEN (u[3] - LimbBase) * LimbBase + u[4]
    ELSE u[3] * LimbBase + u[4]

\* The record every variant builds for index u: MyStruct(i, i) with both
\* arguments converted to int (explicitly by static_cast<int> in
\* BM_CBaseline3, implicitly elsewhere).
ElementOf(v, u) == MyStruct(SizeToInt(u), SizeToInt(u))

\* ------------------------------------------------------------- variants
RawVariants == {"BM_CBaseline", "BM_CBaseline2", "BM_CBaseline3"}
AppendVariants == {"BM_EmplaceBack", "BM_PushBack"}
RangeVariants == {"BM_FromRange", "BM_FromRangeIterators"}
Variants == RawVariants \cup AppendVariants \cup RangeVariants

\* The statements of one iteration of the timed loop, in source order.
BodyObserveBeforeBuild(v) ==
    CASE v = "BM_CBaseline"  -> <<"new", "observe", "placement", "delete">>
      [] v = "BM_CBaseline2" -> <<"new", "observe", "assign", "delete">>
      [] v = "BM_CBaseline3" -> <<"new", "observe", "construct_at", "delete">>
      [] v = "BM_EmplaceBack" -> <<"decl", "reserve", "observe", "emplace_back", "dtor">>
      [] v = "BM_PushBack" -> <<"decl", "reserve", "observe", "push_back", "dtor">>
      [] v = "BM_FromRange" -> <<"observe", "from_range", "dtor">>
      [] v = "BM_FromRangeIterators" -> <<"observe", "iter_ctor", "dtor">>
BodyObserveBeforeDelete(v) ==
    CASE v = "BM_CBaseline"  -> <<"new", "placement", "observe", "delete">>
      [] v = "BM_CBaseline2" -> <<"new", "assign", "observe", "delete">>
      [] v = "BM_CBaseline3" -> <<"new", "construct_at", "observe", "delete">>
      [] v = "BM_EmplaceBack" -> <<"decl", "reserve", "emplace_back", "observe", "dtor">>
      [] v = "BM_PushBack" -> <<"decl", "reserve", "push_back", "observe", "dtor">>
      [] v = "BM_FromRange" -> <<"from_range", "observe", "dtor">>
      [] v = "BM_FromRangeIterators" -> <<"iter_ctor", "observe", "dtor">>
BodyNoDelete(v) ==
    CASE v = "BM_CBaseline"  -> <<"new", "placement", "observe">>
      [] v = "BM_CBaseline2" -> <<"new", "assign", "observe">>
      [] v = "BM_CBaseline3" -> <<"new", "construct_at", "observe">>
      [] v = "BM_EmplaceBack" -> <<"decl", "reserve", "emplace_back", "observe", "dtor">>
      [] v = "BM_PushBack" -> <<"decl", "reserve", "push_back", "observe", "dtor">>
      [] v = "BM_FromRange" -> <<"from_range", "observe", "dtor">>
      [] v = "BM_FromRangeIterators" -> <<"iter_ctor", "observe", "dtor">>
BodyAllPlacement(v) ==
    CASE v = "BM_CBaseline"  -> <<"new", "placement", "delete", "observe">>
      [] v = "BM_CBaseline2" -> <<"new", "placement", "delete", "observe">>
      [] v = "BM_CBaseline3" -> <<"new", "construct_at", "delete", "observe">>
      [] v = "BM_EmplaceBack" -> <<"decl", "reserve", "emplace_back", "observe", "dtor">>
      [] v = "BM_PushBack" -> <<"decl", "reserve", "push_back", "observe", "dtor">>
      [] v = "BM_FromRange" -> <<"from_range", "observe", "dtor">>
      [] v = "BM_FromRangeIterators" -> <<"iter_ctor", "observe", "dtor">>
Body(v) ==
    CASE v = "BM_CBaseline"  -> <<"new", "placement", "delete", "observe">>
      [] v = "BM_CBaseline2" -> <<"new", "assign", "delete", "observe">>
      [] v = "BM_CBaseline3" -> <<"new", "construct_at", "delete", "observe">>
      [] v = "BM_EmplaceBack" -> <<"decl", "reserve", "emplace_back", "observe", "dtor">>
      [] v = "BM_PushBack" -> <<"decl", "reserve", "push_back", "observe", "dtor">>
      [] v = "BM_FromRange" -> <<"from_range", "observe", "dtor">>
      [] v = "BM_FromRangeIterators" -> <<"iter_ctor", "observe", "dtor">>

\* for (size_t i = 0; i < N; ++i), and the iota(0uz, N) traversal.
LoopCond(idx, n) == Less(U64(idx), n)

\* sizeof(MyStruct) * N in size_t arithmetic (it wraps at 2^64): the size
\* of the new std::byte[] expression.
AllocBytes(n) == MulSmall(n, SizeofMyStruct)

\* Whether operator new grants a request depends on the machine: any
\* request may be refused (std::bad_alloc), and one of 2^57 bytes or more is
\* refused on every machine, since it exceeds the largest virtual address
\* space of the 64-bit targets. TRUE stands for granted, FALSE for refused.
AllocOutcomes(bytes) == IF bytes[1] >= 2^9 THEN {FALSE} ELSE {TRUE, FALSE}

\* vector::reserve(n) allocates only when n exceeds the capacity.
ReserveAllocatesAlways(n, cap) == ~Less(n, cap)
ReserveAllocates(n, cap) == Less(cap, n)

\* state.iterations() * N, in size_t arithmetic.
ItemsProcessedPerIteration(k, n) == n
ItemsProcessed(k, n) == MulSmall(n, k)

\* Slots DoNotOptimize reads: it takes the pointer (or the vector object)
\* as an asm operand and dereferences nothing.
ObservedSlots(v) == {}

\* Capacities a full vector of capacity cap may grow to on an append (the
\* growth factor is the library's: 2 in libstdc++/libc++, 1.5 in the MSVC
\* library), never less than room for one more element.
GrowthChoices(cap) ==
    { IF cap = U64(0) THEN U64(1) ELSE MulSmall(cap, 2),
      IF Less(cap, Add(cap, DivSmall(cap, 2)))
      THEN Add(cap, DivSmall(cap, 2)) ELSE Add(cap, U64(1)) }

\* ----------------------------------------------------------------- heap
\* A block is its size in bytes and the slots written so far (slot k of the
\* model is vec[k - 1]); a slot never written is uninitialised storage.
NullVec == [kind |-> "none", ptr |-> 0, size |-> 0, cap |-> U64(0)]

\* The pointer operator new[] returns: a block that is not live.
NewId(h) ==
    CHOOSE id \in 1..(Cardinality(DOMAIN h) + 1) :
        /\ id \notin DOMAIN h
        /\ \A j \in 1..(id - 1) : j \in DOMAIN h

\* A fresh block of `bytes` bytes of uninitialised storage.
NewBlock(bytes) == [bytes |-> bytes, cells |-> <<>>]

Allocate(h, block) == [id \in DOMAIN h \cup {NewId(h)} |->
                          IF id \in DOMAIN h THEN h[id] ELSE block]

Release(h, p) == [id \in DOMAIN h \ {p} |-> h[id]]

\* Records of sizeof(MyStruct) bytes that fit in `bytes` bytes.
SlotsOf(bytes) == DivSmall(bytes, SizeofMyStruct)

InBlock(h, p, idx) == p \in DOMAIN h /\ Less(U64(idx), SlotsOf(h[p].bytes))

\* Store record r into slot idx of block p.
WriteSlot(h, p, idx, r, how) ==
    IF InBlock(h, p, idx)
    THEN LET c == h[p].cells
             before == IF idx + 1 \in DOMAIN c THEN c[idx + 1].writes ELSE 0
         IN [h EXCEPT ![p].cells =
               [k \in DOMAIN c \cup {idx + 1} |->
                  IF k = idx + 1
                  THEN [writes |-> before + 1, x |-> r.x, y |-> r.y, via |-> how]
                  ELSE c[k]]]
    ELSE h

\* The first `size` elements of block p, as a sequence of MyStruct values.
Contents(h, p, size) ==
    [k \in 1..size |-> [x |-> h[p].cells[k].x, y |-> h[p].cells[k].y]]

\* Slots of block p that hold a constructed record.
Constructed(h, p) == DOMAIN h[p].cells

\* ------------------------------------------------------ Spec: the frame
Stmt == IF pc = "body" /\ ip \in 1..Len(Body(fn)) THEN Body(fn)[ip] ELSE "none"

LoopStmts == {"placement", "construct_at", "assign", "emplace_back",
              "push_back", "from_range", "iter_ctor"}

\* Control after the statement at ip: the next statement, or the loop head.
Advance ==
    IF ip >= Len(Body(fn))
    THEN pc' = "head" /\ ip' = 0
    ELSE pc' = "body" /\ ip' = ip + 1

Stay == pc' = pc /\ ip' = ip

\* The process dies here: an uncaught std::bad_alloc or std::length_error
\* (std::terminate), or a fault on a store outside a block.
Crash == pc' = "crashed" /\ ip' = ip

Frame == UNCHANGED <<fn, N, maxIter, iter, items, reportCalls, calls, heapAtEntry>>
Others == UNCHANGED <<dvars, pvars>>

FInit ==
    /\ pc = "idle" /\ fn = "" /\ N = U64(0) /\ maxIter = 0 /\ iter = 0 /\ ip = 0
    /\ i = 0 /\ vec = NullVec /\ tmp = <<>> /\ heap = <<>>
    /\ items = U64(0) /\ reportCalls = 0 /\ calls = 0
    /\ events = <<>> /\ temps = 0 /\ built = 0 /\ obs = <<>> /\ allocBytes = U64(0)
    /\ uaf = FALSE /\ oob = FALSE /\ strays = 0 /\ doubleFree = FALSE /\ heapAtEntry = {}

\* The driver calls benchmark function v with state.range(0) = n; the
\* range-for over `state` will run k iterations.
Call(v, n, k) ==
    /\ pc = "idle" /\ calls < MaxCalls
    /\ pc' = "head" /\ fn' = v /\ N' = n /\ maxIter' = k /\ iter' = 0
    /\ heapAtEntry' = DOMAIN heap
    /\ UNCHANGED <<ip, i, vec, tmp, heap, items, reportCalls, calls, events,
                   temps, built, obs, allocBytes, uaf, oob, strays, doubleFree>>
    /\ Others

\* for (auto _ : state): one more iteration begins.
StartIteration ==
    /\ pc = "head" /\ iter < maxIter
    /\ pc' = "body" /\ ip' = 1 /\ iter' = iter + 1
    /\ i' = 0 /\ vec' = NullVec /\ tmp' = <<>>
    /\ events' = <<>> /\ temps' = 0 /\ built' = 0 /\ obs' = <<>> /\ allocBytes' = U64(0)
    /\ UNCHANGED <<fn, N, maxIter, heap, items, reportCalls, calls, uaf, oob, strays,
                   doubleFree, heapAtEntry>>
    /\ Others

\* for (auto _ : state): the loop is over.
ExitLoop ==
    /\ pc = "head" /\ iter >= maxIter
    /\ pc' = "report"
    /\ UNCHANGED <<fn, N, maxIter, iter, ip, i, vec, tmp, heap, items,
                   reportCalls, calls, events, temps, built, obs, allocBytes,
                   uaf, oob, strays, doubleFree, heapAtEntry>>
    /\ Others

\* state.SetItemsProcessed(state.iterations() * N);
Report ==
    /\ pc = "report"
    /\ items' = ItemsProcessed(iter, N)
    /\ reportCalls' = reportCalls + 1
    /\ pc' = "done"
    /\ UNCHANGED <<fn, N, maxIter, iter, ip, i, vec, tmp, heap, calls, events,
                   temps, built, obs, allocBytes, uaf, oob, strays, doubleFree,
                   heapAtEntry>>
    /\ Others

\* The benchmark function returns; its locals go out of scope.
Return ==
    /\ pc = "done"
    /\ pc' = "idle" /\ fn' = "" /\ N' = U64(0) /\ maxIter' = 0 /\ iter' = 0 /\ ip' = 0
    /\ i' = 0 /\ vec' = NullVec /\ tmp' = <<>>
    /\ items' = U64(0) /\ reportCalls' = 0 /\ calls' = calls + 1
    /\ events' = <<>> /\ temps' = 0 /\ built' = 0 /\ obs' = <<>> /\ allocBytes' = U64(0)
    /\ heapAtEntry' = {}
    /\ UNCHANGED <<heap, uaf, oob, strays, doubleFree>>
    /\ Others

\* ------------------------------------------------- Spec: raw-buffer code
\* MyStruct* vec = (MyStruct*)new std::byte[ sizeof(MyStruct) * N ];
NewArray ==
    /\ Stmt = "new"
    /\ \E granted \in AllocOutcomes(AllocBytes(N)) :
        IF granted
        THEN /\ heap' = Allocate(heap, NewBlock(AllocBytes(N)))
             /\ vec' = [kind |-> "ptr", ptr |-> NewId(heap), size |-> 0,
                        cap |-> U64(0)]
             /\ events' = Append(events, "alloc")
             /\ allocBytes' = Add(allocBytes, AllocBytes(N))
             /\ Advance
        ELSE /\ Crash
             /\ UNCHANGED <<vec, heap, events, allocBytes>>
    /\ UNCHANGED <<i, tmp, temps, built, obs, uaf, oob, strays, doubleFree>>
    /\ Frame /\ Others

\* Record r is stored into vec[i] (raw pointer), then ++i. A store past
\* the end of the block is undefined behaviour: it faults, or it lands in
\* mapped memory and the loop goes on (at most MaxStray times).
StoreRaw(r, how) ==
    /\ uaf' = (uaf \/ vec.ptr \notin DOMAIN heap)
    /\ events' = Append(events, "write")
    /\ IF vec.ptr \in DOMAIN heap /\ ~InBlock(heap, vec.ptr, i)
       THEN /\ oob' = TRUE
            /\ strays' = strays + 1
            /\ UNCHANGED <<heap, built>>
            /\ \/ Crash /\ i' = i
               \/ strays < MaxStray /\ Stay /\ i' = i + 1
       ELSE /\ heap' = WriteSlot(heap, vec.ptr, i, r, how)
            /\ built' = built + 1
            /\ i' = i + 1
            /\ Stay
            /\ UNCHANGED <<oob, strays>>
    /\ UNCHANGED <<vec, obs, allocBytes, doubleFree>>
    /\ Frame /\ Others

\* ::new (static_cast<void*>(vec+i)) MyStruct(i, i);
PlacementNew ==
    /\ Stmt = "placement" /\ LoopCond(i, N)
    /\ StoreRaw(ElementOf(fn, U64(i)), "construct")
    /\ UNCHANGED <<tmp, temps>>

\* std::construct_at(vec + i, static_cast<int>(i), static_cast<int>(i));
ConstructAt ==
    /\ Stmt = "construct_at" /\ LoopCond(i, N)
    /\ StoreRaw(ElementOf(fn, U64(i)), "construct")
    /\ UNCHANGED <<tmp, temps>>

\* The temporary MyStruct(i,i) of `vec[i] = MyStruct(i,i)`, the local
\* `MyStruct obj(i, i)` of BM_PushBack, and the value the transform lambda
\* returns when the lazy range is dereferenced.
MaterializeTemp ==
    /\ \/ Stmt \in {"assign", "push_back"}
       \/ Stmt \in {"from_range", "iter_ctor"} /\ vec.kind = "vector"
    /\ tmp = <<>> /\ LoopCond(i, N)
    /\ tmp' = <<ElementOf(fn, U64(i))>>
    /\ temps' = temps + 1
    /\ Stay
    /\ UNCHANGED <<i, vec, heap, events, built, obs, allocBytes, uaf, oob, strays, doubleFree>>
    /\ Frame /\ Others

\* vec[i] = <temporary>;
AssignTemp ==
    /\ Stmt = "assign" /\ tmp # <<>>
    /\ StoreRaw(tmp[1], "assign")
    /\ tmp' = <<>>
    /\ UNCHANGED temps

\* The for loop (or the traversal of the lazy range) ends.
LoopExit ==
    /\ Stmt \in LoopStmts /\ tmp = <<>> /\ ~LoopCond(i, N)
    /\ Stmt \in {"from_range", "iter_ctor"} => vec.kind = "vector"
    /\ Advance
    /\ UNCHANGED <<i, vec, tmp, heap, events, temps, built, obs, allocBytes,
                   uaf, oob, strays, doubleFree>>
    /\ Frame /\ Others

\* delete[] vec;   (MyStruct is trivially destructible: the block is handed
\* back to operator delete[], no destructor runs.)
Delete ==
    /\ Stmt = "delete"
    /\ IF vec.ptr \in DOMAIN heap
       THEN heap' = Release(heap, vec.ptr) /\ UNCHANGED doubleFree
       ELSE doubleFree' = TRUE /\ UNCHANGED heap
    /\ events' = Append(events, "release")
    /\ Advance
    /\ UNCHANGED <<i, vec, tmp, temps, built, obs, allocBytes, uaf, oob, strays>>
    /\ Frame /\ Others

\* benchmark::DoNotOptimize(vec);
Observe ==
    /\ Stmt = "observe"
    /\ obs' = Append(obs, built)
    /\ events' = Append(events, "observe")
    /\ uaf' = (uaf \/ (ObservedSlots(fn) # {} /\ vec.ptr \notin DOMAIN heap))
    /\ Advance
    /\ UNCHANGED <<i, vec, tmp, heap, temps, built, allocBytes, oob, strays, doubleFree>>
    /\ Frame /\ Others

\* ---------------------------------------------------- Spec: std::vector
EmptyVector == [kind |-> "vector", ptr |-> 0, size |-> 0, cap |-> U64(0)]

\* A vector of n elements cannot be: above max_size() (2^60 - 1 or
\* 2^61 - 1 elements, by library) the vector throws std::length_error, and
\* from 2^60 elements on the block would take 2^63 bytes or more.
TooLong(n) == n[1] >= 2^12

\* The vector v moves to a fresh block of capacity newcap: allocate, move
\* the elements over, release the old block.
Regrown(h, v, newcap) ==
    LET id == NewId(h)
        moved == [k \in 1..v.size |->
                    [writes |-> 1, x |-> h[v.ptr].cells[k].x,
                     y |-> h[v.ptr].cells[k].y, via |-> "move"]]
        h1 == Allocate(h, [bytes |-> AllocBytes(newcap), cells |-> moved])
        h2 == IF v.ptr # 0 THEN Release(h1, v.ptr) ELSE h1
    IN [heap |-> h2,
        vec |-> [v EXCEPT !.ptr = id, !.cap = newcap],
        allocs |-> <<"alloc">>,
        frees |-> IF v.ptr # 0 THEN <<"release">> ELSE <<>>,
        bytes |-> AllocBytes(newcap)]

\* The vector v stays where it is.
InPlace(h, v) ==
    [heap |-> h, vec |-> v, allocs |-> <<>>, frees |-> <<>>, bytes |-> U64(0)]

\* The vector needs a block for n elements, which cannot be had: n is too
\* long, or the allocator refuses (granted = FALSE).
Refused(n, granted) == TooLong(n) \/ ~granted

\* Record r is appended to the vector (emplace_back / push_back / the range
\* constructors' element step); ++i. When the vector is full it allocates a
\* block of capacity newcap, stores r there, carries the old elements over
\* and then releases the old block; the process dies when that block
\* cannot be had.
VecAppend(r, how, newcap) ==
    LET full == ~Less(U64(vec.size), vec.cap)
    IN \E granted \in (IF full THEN AllocOutcomes(AllocBytes(newcap)) ELSE {TRUE}) :
        IF full /\ Refused(newcap, granted)
        THEN /\ Crash
             /\ UNCHANGED <<heap, vec, events, allocBytes, built, i>>
             /\ UNCHANGED <<obs, uaf, oob, strays, doubleFree>>
             /\ Frame /\ Others
        ELSE LET g == IF full THEN Regrown(heap, vec, newcap)
                      ELSE InPlace(heap, vec)
             IN /\ heap' = WriteSlot(g.heap, g.vec.ptr, g.vec.size, r, how)
                /\ vec' = [g.vec EXCEPT !.size = @ + 1]
                /\ events' = events \o g.allocs \o <<"write">> \o g.frees
                /\ allocBytes' = Add(allocBytes, g.bytes)
                /\ built' = built + 1
                /\ i' = i + 1
                /\ Stay
                /\ UNCHANGED <<obs, uaf, oob, strays, doubleFree>>
                /\ Frame /\ Others

\* The vector is given room for exactly n elements by reserve or by a
\* sizing constructor, from the state (h, v); then control goes on as `go`.
\* No block is needed when n does not exceed the capacity.
SizeTo(h, v, n, go) ==
    LET needed == ReserveAllocates(n, v.cap)
    IN \E granted \in (IF needed THEN AllocOutcomes(AllocBytes(n)) ELSE {TRUE}) :
        IF needed /\ Refused(n, granted)
        THEN /\ Crash
             /\ UNCHANGED <<vec, heap, events, allocBytes>>
        ELSE LET g == IF needed THEN Regrown(h, v, n) ELSE InPlace(h, v)
             IN /\ heap' = g.heap
                /\ vec' = g.vec
                /\ events' = events \o g.allocs \o g.frees
                /\ allocBytes' = Add(allocBytes, g.bytes)
                /\ go

\* std::vector<MyStruct> vec;
Decl ==
    /\ Stmt = "decl"
    /\ vec' = EmptyVector
    /\ Advance
    /\ UNCHANGED <<i, tmp, heap, events, temps, built, obs, allocBytes, uaf,
                   oob, strays, doubleFree>>
    /\ Frame /\ Others

\* vec.reserve(N);
Reserve ==
    /\ Stmt = "reserve"
    /\ SizeTo(heap, vec, N, Advance)
    /\ UNCHANGED <<i, tmp, temps, built, obs, uaf, oob, strays, doubleFree>>
    /\ Frame /\ Others

\* vec.emplace_back(i, i);
EmplaceBack ==
    /\ Stmt = "emplace_back" /\ LoopCond(i, N)
    /\ \E newcap \in GrowthChoices(vec.cap) :
           VecAppend(ElementOf(fn, U64(i)), "construct", newcap)
    /\ UNCHANGED <<tmp, temps>>

\* vec.push_back(obj);
PushBack ==
    /\ Stmt = "push_back" /\ tmp # <<>>
    /\ \E newcap \in GrowthChoices(vec.cap) : VecAppend(tmp[1], "copy", newcap)
    /\ tmp' = <<>>
    /\ UNCHANGED temps

\* std::vector<MyStruct> vec( std::from_range, iota | transform );
\* The range is sized: the vector allocates room for N elements at once.
RangeCtor ==
    /\ Stmt = "from_range" /\ vec.kind = "none"
    /\ SizeTo(heap, EmptyVector, N, Stay)
    /\ UNCHANGED <<i, tmp, temps, built, obs, uaf, oob, strays, doubleFree>>
    /\ Frame /\ Others

\* std::vector<MyStruct> vec( std::begin(range), std::end(range) );
\* The iterators are C++17 input iterators (they yield prvalues) and C++20
\* random-access iterators: a library may size the vector up front or
\* append element by element, growing as it goes.
IterCtor ==
    /\ Stmt = "iter_ctor" /\ vec.kind = "none"
    /\ \E presized \in BOOLEAN :
        SizeTo(heap, EmptyVector, IF presized THEN N ELSE U64(0), Stay)
    /\ UNCHANGED <<i, tmp, temps, built, obs, uaf, oob, strays, doubleFree>>
    /\ Frame /\ Others

\* The range constructors' element step: the value of *it is moved into
\* the next element of the vector.
RangeAppend ==
    /\ Stmt \in {"from_range", "iter_ctor"} /\ vec.kind = "vector" /\ tmp # <<>>
    /\ \E newcap \in GrowthChoices(vec.cap) : VecAppend(tmp[1], "move", newcap)
    /\ tmp' = <<>>
    /\ UNCHANGED temps

\* End of the loop body: ~vector() releases the vector's block, if any.
Dtor ==
    /\ Stmt = "dtor"
    /\ IF vec.ptr = 0
       THEN UNCHANGED <<heap, events, doubleFree>>
       ELSE /\ events' = Append(events, "release")
            /\ IF vec.ptr \in DOMAIN heap
               THEN heap' = Release(heap, vec.ptr) /\ UNCHANGED doubleFree
               ELSE doubleFree' = TRUE /\ UNCHANGED heap
    /\ Advance
    /\ UNCHANGED <<i, vec, tmp, temps, built, obs, allocBytes, uaf, oob, strays>>
    /\ Frame /\ Others

\* Item counts of 2^60, 2^61, 2^61 + 1 and 2^64 - 1 (a range(0) of -1).
LargeCounts ==
    { <<2^12, 0, 0, 0>>, <<2^13, 0, 0, 0>>, <<2^13, 0, 0, 1>>,
      <<LimbBase - 1, LimbBase - 1, LimbBase - 1, LimbBase - 1>> }

\* The item counts explored for variant v. With a large count the
\* element-by-element growth of BM_FromRangeIterators runs until memory is
\* exhausted, which no bounded run shows: it gets the small counts only.
\* Counts between the two groups behave as the small ones do when their
\* requests are granted and die at the request when it is refused; their
\* build loops are too long to run step by step.
Counts(v) ==
    {U64(m) : m \in 0..MaxN}
        \cup (IF v = "BM_FromRangeIterators" THEN {} ELSE LargeCounts)

Init ==
    /\ FInit
    /\ dpc = "static_init" /\ registry = <<>> /\ cur = 0 /\ rep = 0
    /\ running = {} /\ reported = U64(0)
    /\ probeI = U64(0) /\ probeFn = "" /\ probeRec = <<>>

Next ==
    \/ \E v \in Variants, k \in 1..MaxIters : \E n \in Counts(v) : Call(v, n, k)
    \/ StartIteration
    \/ ExitLoop
    \/ Report
    \/ Return
    \/ NewArray
    \/ PlacementNew
    \/ ConstructAt
    \/ MaterializeTemp
    \/ AssignTemp
    \/ LoopExit
    \/ Delete
    \/ Observe
    \/ Decl
    \/ Reserve
    \/ EmplaceBack
    \/ PushBack
    \/ RangeCtor
    \/ IterCtor
    \/ RangeAppend
    \/ Dtor

Spec == Init /\ [][Next]_vars

\* ------------------------------------------- SpecDriver: registration, run
\* BENCHMARK(f)->Arg(500000)->Repetitions(20); no registration carries a
\* ->Threads(...) modifier, so each asks for a single thread.
Benchmark(f) ==
    [name |-> f, arg |-> ItemCount, reps |-> RepetitionCount, threads |-> 1]

\* The registrations, in source order.
RegistrationsThreaded ==
    << Benchmark("BM_FromRange"), Benchmark("BM_FromRangeIterators"),
       Benchmark("BM_EmplaceBack"), Benchmark("BM_PushBack"),
       Benchmark("BM_CBaseline"), Benchmark("BM_CBaseline2"),
       [Benchmark("BM_CBaseline3") EXCEPT !.threads = 2] >>
Registrations ==
    << Benchmark("BM_FromRange"), Benchmark("BM_FromRangeIterators"),
       Benchmark("BM_EmplaceBack"), Benchmark("BM_PushBack"),
       Benchmark("BM_CBaseline"), Benchmark("BM_CBaseline2"),
       Benchmark("BM_CBaseline3") >>

DOthers == UNCHANGED <<fvars, pvars>>

\* Static initialisation runs the BENCHMARK(...) registrations top to bottom.
Register ==
    /\ dpc = "static_init" /\ Len(registry) < Len(Registrations)
    /\ registry' = Append(registry, Registrations[Len(registry) + 1])
    /\ UNCHANGED <<dpc, cur, rep, running, reported>>
    /\ DOthers

\* The driver behind BENCHMARK_MAIN() is the benchmark library's; its steps
\* follow the driver contract: the registered variants run in registration
\* order, each for its repetition count, one repetition at a time.
\* main() starts running the registered benchmarks.
Main ==
    /\ dpc = "static_init" /\ Len(registry) = Len(Registrations)
    /\ dpc' = "main" /\ cur' = 1 /\ rep' = 0
    /\ UNCHANGED <<registry, running, reported>>
    /\ DOthers

\* The driver starts the next repetition of the current benchmark, once the
\* previous one is over: one call of the benchmark function for each thread
\* the registration asks for.
BeginRepetition ==
    /\ dpc = "main" /\ cur \in 1..Len(registry)
    /\ running = {} /\ rep < registry[cur].reps
    /\ running' = {<<registry[cur].name, rep + 1, t>> :
                      t \in 1..registry[cur].threads}
    /\ UNCHANGED <<dpc, registry, cur, rep, reported>>
    /\ DOthers

\* A call of the running repetition returns after k iterations of its timed
\* loop, having reported state.iterations() * N items; the repetition is
\* over when its last call has returned.
EndRepetition(k) ==
    /\ dpc = "main" /\ running # {}
    /\ \E r \in running :
         /\ running' = running \ {r}
         /\ rep' = IF running = {r} THEN rep + 1 ELSE rep
    /\ reported' = ItemsProcessed(k, U64(registry[cur].arg))
    /\ UNCHANGED <<dpc, registry, cur>>
    /\ DOthers

\* All repetitions of the current benchmark are done: on to the next.
NextBenchmark ==
    /\ dpc = "main" /\ cur \in 1..Len(registry)
    /\ running = {} /\ rep >= registry[cur].reps
    /\ cur' = cur + 1 /\ rep' = 0
    /\ UNCHANGED <<dpc, registry, running, reported>>
    /\ DOthers

\* main() returns after the last registered benchmark.
MainExit ==
    /\ dpc = "main" /\ cur > Len(registry)
    /\ dpc' = "exit"
    /\ UNCHANGED <<registry, cur, rep, running, reported>>
    /\ DOthers

DriverNext ==
    \/ Register
    \/ Main
    \/ BeginRepetition
    \/ \E k \in 1..MaxDriverIters : EndRepetition(k)
    \/ NextBenchmark
    \/ MainExit

SpecDriver == Init /\ [][DriverNext]_vars

\* ------------------------------------ SpecNarrow: the index conversion
\* Probe indices: every combination of these limb values, so that indices
\* below 2^31, in [2^31, 2^32) and at or above 2^32 all occur.
ProbeHighLimbs == {0, 1}
ProbeLimb3 == {0, 1, LimbHalf - 1, LimbHalf, LimbBase - 1}
ProbeLimb4 == {0, 1, LimbBase - 1}
ProbeIndices ==
    {<<a, b, c, d>> : a \in ProbeHighLimbs, b \in ProbeHighLimbs,
                      c \in ProbeLimb3, d \in ProbeLimb4}

NarrowInit ==
    /\ FInit
    /\ dpc = "static_init" /\ registry = <<>> /\ cur = 0 /\ rep = 0
    /\ running = {} /\ reported = U64(0)
    /\ probeI \in ProbeIndices /\ probeFn = "" /\ probeRec = <<>>

\* Variant v builds the record of index probeI.
BuildElement(v) ==
    /\ probeFn = ""
    /\ probeFn' = v
    /\ probeRec' = <<ElementOf(v, probeI)>>
    /\ UNCHANGED <<probeI, fvars, dvars>>

NarrowNext == \E v \in Variants : BuildElement(v)

SpecNarrow == NarrowInit /\ [][NarrowNext]_vars

\* =============================================================== claims
\* The sequence [(0,0), (1,1), ..., (n-1,n-1)].
Expected(n) == [k \in 1..n |-> [x |-> k - 1, y |-> k - 1]]

\* Occurrences of e in the sequence s.
Count(s, e) == Cardinality({k \in 1..Len(s) : s[k] = e})

\* A benchmark function is inside its timed loop.
InLoop == pc \in {"head", "body"} /\ fn # ""

\* The build loop of the current iteration has just ended.
AtEndOfBuild == pc = "body" /\ ip > 1 /\ Body(fn)[ip - 1] \in LoopStmts

\* The body of an iteration has just ended.
IterationEnded == pc = "head" /\ iter > 0

\* The raw pointer `vec` points to a live block.
RawLive == fn \in RawVariants /\ vec.kind = "ptr" /\ vec.ptr \in DOMAIN heap

\* C1: for every variant and every N, when the build loop of an iteration
\* has ended the collection holds exactly N elements and element i has
\* x = i and y = i.
C1_SameSequence ==
    AtEndOfBuild =>
        /\ Small(N)
        /\ IF fn \in RawVariants
           THEN /\ vec.ptr \in DOMAIN heap
                /\ SlotsOf(heap[vec.ptr].bytes) = N
                /\ Constructed(heap, vec.ptr) = 1..Val(N)
                /\ Contents(heap, vec.ptr, Val(N)) = Expected(Val(N))
           ELSE /\ vec.kind = "vector"
                /\ vec.size = Val(N)
                /\ Val(N) > 0 => vec.ptr \in DOMAIN heap
                /\ Contents(heap, vec.ptr, Val(N)) = Expected(Val(N))

C1_Witness ==
    /\ AtEndOfBuild /\ fn = "BM_FromRangeIterators" /\ N = <<0, 0, 0, 5>>
    /\ Contents(heap, vec.ptr, vec.size) =
         << [x |-> 0, y |-> 0], [x |-> 1, y |-> 1], [x |-> 2, y |-> 2],
            [x |-> 3, y |-> 3], [x |-> 4, y |-> 4] >>

\* C2 as stated: for N = 0 every variant builds nothing and performs no
\* allocation at all, the raw-buffer variants included.
C2_NoAllocationCall ==
    (InLoop /\ N = <<0, 0, 0, 0>>) =>
        /\ built = 0
        /\ Count(events, "alloc") = 0

\* C2 amended: for N = 0 every variant completes its iteration, builds no
\* element and requests zero bytes of element storage; the append and range
\* variants make no allocation call, while each raw-buffer variant makes one
\* call of new[] for 0 bytes per iteration and releases that block.
C2_ZeroBytes ==
    (InLoop /\ N = <<0, 0, 0, 0>>) =>
        /\ built = 0 /\ temps = 0
        /\ allocBytes = U64(0)
        /\ ~uaf /\ ~oob /\ ~doubleFree
        /\ fn \notin RawVariants => Count(events, "alloc") = 0 /\ vec.ptr = 0
        /\ fn \in RawVariants =>
             /\ Count(events, "alloc") <= 1
             /\ RawLive => heap[vec.ptr].bytes = U64(0) /\ heap[vec.ptr].cells = <<>>
        /\ IterationEnded =>
             /\ obs = <<0>>
             /\ DOMAIN heap = heapAtEntry
             /\ events = IF fn \in RawVariants
                         THEN <<"alloc", "release", "observe">>
                         ELSE <<"observe">>

C2_Witness ==
    /\ IterationEnded /\ N = <<0, 0, 0, 0>> /\ fn = "BM_CBaseline"
    /\ events = <<"alloc", "release", "observe">>
    /\ allocBytes = U64(0) /\ DOMAIN heap = {}

\* C3: in the raw-buffer variants every block allocated in an iteration is
\* released exactly once before the iteration's body ends, no block is
\* released twice, and after any number of iterations the live blocks are
\* those that were live before the first.
C3_ReleasedOnce ==
    fn \in RawVariants =>
        /\ ~doubleFree
        /\ Count(events, "release") <= Count(events, "alloc")
        /\ IterationEnded =>
             /\ Count(events, "alloc") = 1
             /\ Count(events, "release") = 1
        /\ pc \in {"head", "report", "done"} => DOMAIN heap = heapAtEntry

C3_Witness ==
    /\ fn = "BM_CBaseline2" /\ pc = "done" /\ iter = 2 /\ N = <<0, 0, 0, 3>>
    /\ calls = 1
    /\ DOMAIN heap = heapAtEntry /\ Count(events, "release") = 1

\* C4: in every iteration of every variant DoNotOptimize is called exactly
\* once, after all N records of the iteration have been built.
C4_ObservedOnce ==
    InLoop =>
        /\ Len(obs) <= 1
        /\ \A k \in 1..Len(obs) : Small(N) /\ obs[k] = Val(N)
        /\ IterationEnded => Len(obs) = 1

C4_Witness ==
    /\ IterationEnded /\ iter = 2 /\ fn = "BM_PushBack" /\ N = <<0, 0, 0, 3>>
    /\ obs = <<3>> /\ Count(events, "observe") = 1

\* C5: once static initialisation is over the registry holds exactly the
\* seven variants, each once, each with item count 500000 and 20
\* repetitions; at most one call of a benchmark function is running at any
\* time, and it is the next repetition of the current benchmark.
C5_SevenRegistered ==
    dpc # "static_init" =>
        /\ Len(registry) = 7
        /\ {registry[k].name : k \in 1..Len(registry)} =
             {"BM_FromRange", "BM_FromRangeIterators", "BM_EmplaceBack",
              "BM_PushBack", "BM_CBaseline", "BM_CBaseline2", "BM_CBaseline3"}
        /\ \A j, k \in 1..Len(registry) :
               registry[j].name = registry[k].name => j = k
        /\ \A k \in 1..Len(registry) :
               registry[k].arg = 500000 /\ registry[k].reps = 20
        /\ Cardinality(running) <= 1
        /\ \A r \in running :
               cur \in 1..Len(registry) /\ r = <<registry[cur].name, rep + 1, 1>>
        /\ cur \in 1..Len(registry) => rep <= 20

C5_Witness ==
    /\ dpc = "main" /\ cur = 7 /\ rep = 19
    /\ running = {<<"BM_CBaseline3", 20, 1>>}

\* C6: after the timed loop ran k iterations the item count reported is
\* k * N; it is reported once, after the loop, never inside it.
C6_ItemsReported ==
    /\ pc \in {"head", "body", "report"} => reportCalls = 0
    /\ pc = "done" =>
         /\ reportCalls = 1
         /\ iter = maxIter
         /\ Small(N) /\ Small(items)
         /\ Val(items) = iter * Val(N)
         /\ Val(N) = 0 => Val(items) = 0

C6_Witness ==
    /\ pc = "done" /\ iter = 2 /\ N = <<0, 0, 0, 3>>
    /\ items = <<0, 0, 0, 6>> /\ reportCalls = 1

\* C7 as stated: in the raw-buffer variants the block holds exactly N
\* records, every slot 0..N-1 is constructed exactly once between
\* allocation and release (slots 0..i-1 once, the others not yet; all of
\* them at the release), and no slot outside the block is written.
C7_SlotsOnce ==
    /\ ~oob
    /\ RawLive =>
         /\ SlotsOf(heap[vec.ptr].bytes) = N
         /\ ~Less(N, U64(i))
         /\ Constructed(heap, vec.ptr) = 1..i
         /\ \A k \in Constructed(heap, vec.ptr) :
                heap[vec.ptr].cells[k].writes = 1
         /\ Stmt = "delete" => U64(i) = N

\* C8: BM_CBaseline2 fills every slot by materialising a temporary
\* MyStruct(i,i) and assigning it to the slot; BM_CBaseline and
\* BM_CBaseline3 construct every slot in place, with no temporary.
C8_AssignVersusInPlace ==
    (fn \in RawVariants /\ InLoop) =>
        IF fn = "BM_CBaseline2"
        THEN /\ temps = built + strays + Len(tmp)
             /\ tmp # <<>> => tmp[1] = [x |-> i, y |-> i]
             /\ RawLive => \A k \in Constructed(heap, vec.ptr) :
                               heap[vec.ptr].cells[k].via = "assign"
             /\ IterationEnded => Small(N) /\ temps = Val(N)
        ELSE /\ temps = 0 /\ tmp = <<>>
             /\ RawLive => \A k \in Constructed(heap, vec.ptr) :
                               heap[vec.ptr].cells[k].via = "construct"

C8_Witness ==
    /\ RawLive /\ Stmt = "delete" /\ fn = "BM_CBaseline2" /\ N = <<0, 0, 0, 3>>
    /\ temps = 3
    /\ \A k \in 1..3 : heap[vec.ptr].cells[k].via = "assign"

\* The events of one whole iteration of a raw-buffer variant.
RawOrder(n) == <<"alloc">> \o [k \in 1..n |-> "write"] \o <<"release", "observe">>

\* C9: in the raw-buffer variants the events of an iteration are, in order,
\* allocate, write slots 0..N-1, release, observe (for a count too large to
\* finish: allocate, then writes only); no slot of a block is read or
\* written after the block's release.
C9_ReleaseThenObserve ==
    /\ ~uaf
    /\ (fn \in RawVariants /\ InLoop) =>
         IF Small(N)
         THEN /\ Len(events) <= Val(N) + 3
              /\ events = SubSeq(RawOrder(Val(N)), 1, Len(events))
              /\ IterationEnded => events = RawOrder(Val(N))
         ELSE /\ ~IterationEnded
              /\ \A k \in 1..Len(events) :
                     events[k] = (IF k = 1 THEN "alloc" ELSE "write")

C9_Witness ==
    /\ IterationEnded /\ fn = "BM_CBaseline3" /\ N = <<0, 0, 0, 3>> /\ ~uaf
    /\ events = <<"alloc", "write", "write", "write", "release", "observe">>

\* The size_t index u lies below 2^31.
Below2to31(u) == u[1] = 0 /\ u[2] = 0 /\ u[3] < 32768

\* The int x has the value of the size_t index u.
EqualsIndex(x, u) == Below2to31(u) /\ x = u[3] * 65536 + u[4]

\* C10: in every variant the record built for index i has x = y = i
\* reduced modulo 2^32 and read as a signed 32-bit int; x = y = i holds
\* exactly for the indices below 2^31.
C10_Narrowing ==
    probeRec # <<>> =>
        LET x == probeRec[1].x
        IN /\ probeRec[1].y = x
           /\ x >= -2147483647 - 1 /\ x <= 2147483647
           /\ x % 65536 = probeI[4]
           /\ (x \div 65536) % 65536 = probeI[3]
           /\ EqualsIndex(x, probeI) <=> Below2to31(probeI)

C10_Witness ==
    /\ probeFn = "BM_CBaseline3" /\ probeI = <<0, 0, 32768, 0>>
    /\ probeRec = << [x |-> -2147483647 - 1, y |-> -2147483647 - 1] >>

====
